---- MODULE Spec2Model ----
(***************************************************************************)
(* electron-reload (src/main.ts): the default export wires two chokidar    *)
(* subscriptions (soft reset: reload every BrowserWindow; hard reset:      *)
(* spawn a successor and terminate) and keeps the list of live             *)
(* BrowserWindows.  The host runtime (electron), the watch service         *)
(* (chokidar), the file system and child_process.spawn are the             *)
(* environment; their calls are modelled at the call sites in main.ts.     *)
(***************************************************************************)
EXTENDS Integers, Sequences, FiniteSets, TLC

\* ------------------------------------------------------------------ bounds
MaxSurfaces == 3
MaxChanges == 2

\* ------------------------------------------------------------ value domains
\* A path is the sequence of its segments (all paths are absolute, so every
\* segment is preceded by a separator).  NoPath is the empty string ''.
NoPath == <<>>
MainPath == <<"app", "main.js">>
SrcPath == <<"app", "src", "foo.js">>
DepPath == <<"app", "node_modules", "dep.js">>
DotPath == <<"app", ".cache">>
Files == {MainPath, SrcPath, DepPath, DotPath}

\* JavaScript's undefined, for the string-valued options.
Undefined == "undefined"
ElectronPath == "/usr/bin/electron"

\* Surface handles, numbered in creation order.
Surfaces == 1..MaxSurfaces

\* Values of the glob parameter (string | string[]), as the set of its paths:
\* the application directory, or its source directory.
Globs == { {<<"app">>}, {<<"app", "src">>} }

\* A matcher of an `ignored` list: the regular expression ignoredPaths, or a
\* path string.
RegexMatcher == [re |-> TRUE, path |-> NoPath]
PathMatcher(p) == [re |-> FALSE, path |-> p]

\* Values of options.ignored when the caller supplies it.
CallerIgnored == { {PathMatcher(DotPath)} }

\* The caller's options object.  hasIgnored / hasArgv tell whether the key is
\* present; forceHardReset is TRUE only for the JavaScript value true.
OptionValues ==
    [ hasIgnored     : BOOLEAN,
      ignored        : CallerIgnored,
      mainFile       : {NoPath, MainPath},
      electron       : {Undefined, ElectronPath},
      hardResetMethod: {Undefined, "exit", "quit"},
      forceHardReset : BOOLEAN,
      hasArgv        : BOOLEAN,
      argv           : {<<>>, <<"--a", "--b">>} ]

NoArgv == <<>>

\* The options objects the model starts from: argv is given (non-empty) exactly
\* when hasArgv; the ignored field is read only when hasIgnored.
Configs ==
    { o \in OptionValues :
        /\ (o.hasArgv <=> o.argv # NoArgv) }

\* (options.mainFile, module.parent?.filename): at most one of them is given.
MainFileSources == { <<NoPath, NoPath>>, <<NoPath, MainPath>>, <<MainPath, NoPath>> }

VARIABLES
    started,         \* the default export has run
    glob,            \* parameter glob
    options,         \* parameter options
    parentFile,      \* module.parent?.filename, NoPath when undefined
    execOnDisk,      \* the file system: whether the path options.electron exists
    existedAtStart,  \* what fs.existsSync(eXecutable) saw at startup
    mainFile,        \* const mainFile
    browserWindows,  \* const browserWindows (the array's contents)
    win,             \* the host runtime: each surface's lifecycle
    watcher,         \* the soft-reset subscription
    hardWatcher,     \* the hard-reset subscription
    reloads,         \* reloadIgnoringCache calls made by the step just taken, in order
    fired,           \* the handler the step just taken ran, and the changed file
    calls,           \* spawn / unref / exit / quit calls, in order
    spawnLog,        \* (executable, args, outcome) of every spawn call
    consoleLog,      \* console.log output
    alive,           \* the process is running
    nChanges         \* file changes seen by a subscription so far

vars == << started, glob, options, parentFile, execOnDisk, existedAtStart, mainFile,
           browserWindows, win, watcher, hardWatcher, reloads, fired, calls, spawnLog, consoleLog,
           alive, nChanges >>

\* ------------------------------------------------------------ pure helpers
Range(q) == {q[i] : i \in 1..Len(q)}

appPath == "/app"

\* ignoredPaths = /node_modules|[/\\]\./ tested on a path: a segment holding
\* "node_modules", or a separator followed by a dot.
NodeModulesSegments == {"node_modules"}
DotSegments == {".cache"}
ignoredPaths(f) ==
    \E i \in 1..Len(f) : f[i] \in NodeModulesSegments \/ f[i] \in DotSegments

\* A watched or ignored path string p covers f: f is p or lies under p.  The
\* empty string covers nothing.
Covers(p, f) ==
    /\ p # NoPath
    /\ Len(p) <= Len(f)
    /\ SubSeq(f, 1, Len(p)) = p

Matches(m, f) == IF m.re THEN ignoredPaths(f) ELSE Covers(m.path, f)

\* Object.assign({ ignored: defaults }, options).ignored
AssignIgnored(defaults, opts) ==
    IF opts.hasIgnored THEN opts.ignored ELSE defaults

\* chokidar.watch(paths, { ignored })
ChokidarWatch(paths, ignored) ==
    [ created |-> TRUE, open |-> TRUE, patterns |-> paths, ignored |-> ignored,
      listener |-> FALSE, pending |-> {}, dropped |-> FALSE ]

NoWatcher ==
    [ created |-> FALSE, open |-> FALSE, patterns |-> {}, ignored |-> {},
      listener |-> FALSE, pending |-> {}, dropped |-> FALSE ]

\* The subscription w reports changes of f.
Watches(w, f) ==
    /\ w.created /\ w.open
    /\ \E p \in w.patterns : Covers(p, f)
    /\ ~ \E m \in w.ignored : Matches(m, f)

\* ---------------------------------------------------------- the code, pure
\* const mainFile = options.mainFile ?? module.parent?.filename ?? ''
ResolveMainFile(opts, parent) ==
    IF opts.mainFile # NoPath THEN opts.mainFile ELSE parent

\* Variant: forceHardReset closes the soft watcher whether or not the hard
\* reset is available.
SoftWatcherClosedOnForce(g, opts, main) ==
    LET w == ChokidarWatch(g, AssignIgnored({RegexMatcher, PathMatcher(main)}, opts))
    IN  [ w EXCEPT !.listener = ~opts.forceHardReset, !.open = ~opts.forceHardReset ]

\* chokidar.watch(glob, Object.assign({ ignored: [ignoredPaths, mainFile] }, options))
\* followed by watcher.on('change', softResetHandler)
SoftWatcher(g, opts, main) ==
    [ ChokidarWatch(g, AssignIgnored({RegexMatcher, PathMatcher(main)}, opts))
        EXCEPT !.listener = TRUE ]

\* Variant: the existence check is left out.
EligibleTypeOnly(opts, onDisk) == opts.electron # Undefined

\* typeof eXecutable === 'string' && fs.existsSync(eXecutable)
Eligible(opts, onDisk) == opts.electron # Undefined /\ onDisk

\* Variant: under forceHardReset the hard watcher is opened on glob alone.
HardWatcherGlobOnly(g, opts, main) ==
    LET w == ChokidarWatch({main}, AssignIgnored({RegexMatcher}, opts))
    IN  [ w EXCEPT !.patterns = IF opts.forceHardReset THEN g ELSE {main},
                   !.listener = TRUE ]

\* Variant: hardWatcher.add(glob) is left out.
HardWatcherMainOnly(g, opts, main) ==
    [ ChokidarWatch({main}, AssignIgnored({RegexMatcher}, opts))
        EXCEPT !.listener = TRUE ]

\* chokidar.watch(mainFile, Object.assign({ ignored: [ignoredPaths] }, options)),
\* hardWatcher.add(glob) when forceHardReset === true, and
\* hardWatcher.once('change', hardResetHandler)
HardWatcher(g, opts, main) ==
    LET w == ChokidarWatch({main}, AssignIgnored({RegexMatcher}, opts))
    IN  [ w EXCEPT !.patterns = IF opts.forceHardReset THEN {main} \cup g ELSE {main},
                   !.listener = TRUE ]

\* Variant: watcher.close() runs without the forceHardReset test.
CloseSoftAlways(w, opts) == [w EXCEPT !.open = FALSE, !.listener = FALSE]

\* Variant: watcher.close() is left out.
CloseSoftNever(w, opts) == w

\* watcher.close(), run when forceHardReset === true inside the eligible branch
CloseSoft(w, opts) ==
    IF opts.forceHardReset THEN [w EXCEPT !.open = FALSE, !.listener = FALSE] ELSE w

\* Variant: unshift instead of push.
RegisterFront(bws, bw) == <<bw>> \o bws

\* browserWindows.push(bw)
Register(bws, bw) == Append(bws, bw)

\* Array.prototype.indexOf, 0-based, -1 when absent
IndexOf(bws, bw) ==
    IF \E i \in 1..Len(bws) : bws[i] = bw
    THEN (CHOOSE i \in 1..Len(bws) :
            bws[i] = bw /\ \A j \in 1..(i - 1) : bws[j] # bw) - 1
    ELSE -1

\* Variant: splice(i) without the delete count removes every entry from i on.
Splice1ToEnd(bws, i) ==
    LET n == Len(bws)
        start == IF i < 0 THEN (IF n + i < 0 THEN 0 ELSE n + i)
                 ELSE (IF i > n THEN n ELSE i)
    IN  SubSeq(bws, 1, start)

\* Array.prototype.splice(i, 1): a negative i counts from the end
Splice1(bws, i) ==
    LET n == Len(bws)
        start == IF i < 0 THEN (IF n + i < 0 THEN 0 ELSE n + i)
                 ELSE (IF i > n THEN n ELSE i)
    IN  IF start >= n THEN bws
        ELSE SubSeq(bws, 1, start) \o SubSeq(bws, start + 2, n)

\* Variant: the last entry is removed instead of the entry found.
UnregisterPop(bws, bw) == SubSeq(bws, 1, Len(bws) - 1)

\* the 'closed' listener: i = browserWindows.indexOf(bw); browserWindows.splice(i, 1)
Unregister(bws, bw) == Splice1(bws, IndexOf(bws, bw))

\* Variant: the iteration starts at the second entry.
softResetHandlerSkipFirst(bws) == [i \in 1..(Len(bws) - 1) |-> bws[i + 1]]

\* softResetHandler: browserWindows.forEach(bw => bw.webContents.reloadIgnoringCache())
\* as the sequence of surfaces reloadIgnoringCache is called on
softResetHandler(bws) == [i \in 1..Len(bws) |-> bws[i]]

\* Variant: the application path is put first (unshift instead of concat).
SpawnArgsAppFirst(opts) == <<appPath>> \o (IF opts.hasArgv THEN opts.argv ELSE <<>>)

\* const args = (argv ?? []).concat([appPath])
SpawnArgs(opts) == (IF opts.hasArgv THEN opts.argv ELSE <<>>) \o <<appPath>>

\* Variant: the branches are swapped.
TerminateCallSwapped(method) == IF method = "exit" THEN "quit" ELSE "exit"

\* if (hardResetMethod === 'exit') app.exit() else app.quit()
TerminateCall(method) == IF method = "exit" THEN "exit" ELSE "quit"

\* Variant: a throwing spawn is caught and the process is terminated anyway.
HandlerCallsCaught(method, outcome) ==
    IF outcome = "throw" THEN <<"spawn", TerminateCall(method)>>
    ELSE <<"spawn", "unref", TerminateCall(method)>>

\* The calls hardResetHandler makes, in order.  A spawn that throws ends the
\* handler; a spawn that fails asynchronously (ENOENT) returns a child.
HandlerCalls(method, outcome) ==
    IF outcome = "throw" THEN <<"spawn">>
    ELSE <<"spawn", "unref", TerminateCall(method)>>

\* What spawn can do: the executable is gone (asynchronous ENOENT), or it is
\* there and the spawn succeeds or throws.
SpawnOutcomes(onDisk) == IF onDisk THEN {"ok", "throw"} ELSE {"enoent"}

\* Whether the process is still running after the handler: app.exit() ends it,
\* app.quit() may be intercepted by the application, an uncaught exception may
\* or may not end it.
AliveAfter(cs) == IF cs[Len(cs)] = "exit" THEN {FALSE} ELSE BOOLEAN

\* --------------------------------------------------------------- the machine
NoHandler == [handler |-> "none", file |-> NoPath]

Init ==
    /\ started = FALSE
    /\ glob \in Globs
    /\ options \in Configs
    /\ parentFile \in {NoPath, MainPath}
    /\ << options.mainFile, parentFile >> \in MainFileSources
    /\ execOnDisk \in (IF options.electron = Undefined THEN {FALSE} ELSE BOOLEAN)
    /\ existedAtStart = FALSE
    /\ mainFile = NoPath
    /\ browserWindows = <<>>
    /\ win = [s \in Surfaces |-> "none"]
    /\ watcher = NoWatcher
    /\ hardWatcher = NoWatcher
    /\ reloads = <<>>
    /\ fired = NoHandler
    /\ calls = <<>>
    /\ spawnLog = <<>>
    /\ consoleLog = <<>>
    /\ alive = TRUE
    /\ nChanges = 0

\* The default export, lines 45-109, run once at startup.
Start ==
    /\ ~started /\ alive
    /\ started' = TRUE
    /\ existedAtStart' = execOnDisk
    /\ LET main == ResolveMainFile(options, parentFile)
           soft == SoftWatcher(glob, options, main)
       IN  /\ mainFile' = main
           /\ IF Eligible(options, execOnDisk)
              THEN /\ hardWatcher' = HardWatcher(glob, options, main)
                   /\ watcher' = CloseSoft(soft, options)
                   /\ consoleLog' = consoleLog
              ELSE /\ hardWatcher' = NoWatcher
                   /\ watcher' = soft
                   /\ consoleLog' = Append(consoleLog,
                          "Electron could not be found. No hard resets for you!")
    /\ reloads' = <<>>
    /\ fired' = NoHandler
    /\ UNCHANGED << glob, options, parentFile, execOnDisk, browserWindows, win,
                    calls, spawnLog, alive,
                    nChanges >>

\* app.on('browser-window-created', ...): the host runtime creates surface s.
\* Surfaces are numbered in creation order (as BrowserWindow.id is).
WindowCreated(s) ==
    /\ started /\ alive
    /\ win[s] = "none"
    /\ \A t \in Surfaces : t < s => win[t] # "none"
    /\ win' = [win EXCEPT ![s] = "open"]
    /\ browserWindows' = Register(browserWindows, s)
    /\ reloads' = <<>>
    /\ fired' = NoHandler
    /\ UNCHANGED << started, existedAtStart, glob, options, parentFile, execOnDisk, mainFile,
                    watcher, hardWatcher, calls,
                    spawnLog, consoleLog, alive, nChanges >>

\* bw.on('closed', ...): the host runtime reports surface s closed.
WindowClosed(s) ==
    /\ started /\ alive
    /\ win[s] = "open"
    /\ win' = [win EXCEPT ![s] = "closed"]
    /\ browserWindows' = Unregister(browserWindows, s)
    /\ reloads' = <<>>
    /\ fired' = NoHandler
    /\ UNCHANGED << started, existedAtStart, glob, options, parentFile, execOnDisk, mainFile,
                    watcher, hardWatcher, calls,
                    spawnLog, consoleLog, alive, nChanges >>

\* The file system: file f changes; every open subscription that watches it
\* will report the change.
Notify(w, f) == IF Watches(w, f) THEN [w EXCEPT !.pending = @ \cup {f}] ELSE w

FileChange(f) ==
    /\ started /\ alive
    /\ nChanges < MaxChanges
    /\ nChanges' = IF Watches(watcher, f) \/ Watches(hardWatcher, f)
                   THEN nChanges + 1 ELSE nChanges
    /\ watcher' = Notify(watcher, f)
    /\ hardWatcher' = Notify(hardWatcher, f)
    /\ reloads' = <<>>
    /\ fired' = NoHandler
    /\ UNCHANGED << started, existedAtStart, glob, options, parentFile, execOnDisk, mainFile,
                    browserWindows, win, calls,
                    spawnLog, consoleLog, alive >>

\* The file system: the electron executable is removed or installed.
ExecChange ==
    /\ started /\ alive
    /\ options.electron # Undefined
    /\ execOnDisk' = ~execOnDisk
    /\ reloads' = <<>>
    /\ fired' = NoHandler
    /\ UNCHANGED << started, existedAtStart, glob, options, parentFile, mainFile, browserWindows,
                    win, watcher, hardWatcher, calls, spawnLog, consoleLog, alive, nChanges >>

\* watcher emits 'change' for f: watcher.on('change', softResetHandler).
SoftChange(f) ==
    /\ started /\ alive
    /\ watcher.open /\ watcher.listener /\ f \in watcher.pending
    /\ watcher' = [watcher EXCEPT !.pending = @ \ {f}]
    /\ reloads' = softResetHandler(browserWindows)
    /\ fired' = [handler |-> "soft", file |-> f]
    /\ UNCHANGED << started, existedAtStart, glob, options, parentFile, execOnDisk, mainFile,
                    browserWindows, win, hardWatcher, calls, spawnLog,
                    consoleLog, alive, nChanges >>

\* Variant: hardWatcher.on instead of hardWatcher.once.
OnceListenerKept(w) == w

\* hardWatcher.once('change', hardResetHandler): the listener is removed when
\* the first event is emitted.
OnceListener(w) == [w EXCEPT !.listener = FALSE]

\* hardWatcher emits 'change' for f while hardResetHandler is bound.
HardChange(f) ==
    /\ started /\ alive
    /\ hardWatcher.open /\ hardWatcher.listener /\ f \in hardWatcher.pending
    /\ \E outcome \in SpawnOutcomes(execOnDisk) :
          LET cs == HandlerCalls(options.hardResetMethod, outcome)
          IN  /\ calls' = calls \o cs
              /\ alive' \in AliveAfter(cs)
              /\ spawnLog' = Append(spawnLog,
                                    [ cmd |-> options.electron,
                                      args |-> SpawnArgs(options),
                                      outcome |-> outcome ])
    /\ hardWatcher' = [OnceListener(hardWatcher) EXCEPT !.pending = @ \ {f}]
    /\ fired' = [handler |-> "hard", file |-> f]
    /\ reloads' = <<>>
    /\ UNCHANGED << started, existedAtStart, glob, options, parentFile, execOnDisk, mainFile,
                    browserWindows, win, watcher, consoleLog,
                    nChanges >>

\* hardWatcher emits 'change' for f after the one-shot listener is gone: no
\* listener runs.
HardChangeUnheard(f) ==
    /\ started /\ alive
    /\ hardWatcher.open /\ ~hardWatcher.listener /\ f \in hardWatcher.pending
    /\ hardWatcher' = [hardWatcher EXCEPT !.pending = @ \ {f}, !.dropped = TRUE]
    /\ reloads' = <<>>
    /\ fired' = NoHandler
    /\ UNCHANGED << started, existedAtStart, glob, options, parentFile, execOnDisk, mainFile,
                    browserWindows, win, watcher, calls, spawnLog, consoleLog, alive, nChanges >>

Next ==
    \/ Start
    \/ \E s \in Surfaces : WindowCreated(s)
    \/ \E s \in Surfaces : WindowClosed(s)
    \/ \E f \in Files : FileChange(f)
    \/ ExecChange
    \/ \E f \in Files : SoftChange(f)
    \/ \E f \in Files : HardChange(f)
    \/ \E f \in Files : HardChangeUnheard(f)

Spec == Init /\ [][Next]_vars

\* The 'closed' listener of lines 81-84 run for a surface that is no longer in
\* browserWindows: a second 'closed' notification for s.
WindowClosedAgain(s) ==
    /\ started /\ alive
    /\ win[s] = "closed"
    /\ browserWindows' = Unregister(browserWindows, s)
    /\ reloads' = <<>>
    /\ fired' = NoHandler
    /\ UNCHANGED << started, existedAtStart, glob, options, parentFile, execOnDisk,
                    mainFile, win, watcher, hardWatcher, calls, spawnLog,
                    consoleLog, alive, nChanges >>

\* The machine under a host runtime that may repeat a 'closed' notification.
NextUnpaired ==
    \/ Next
    \/ \E s \in Surfaces : WindowClosedAgain(s)

SpecUnpaired == Init /\ [][NextUnpaired]_vars

\* -------------------------------------------------------------- properties
Count(q, x) == Cardinality({i \in 1..Len(q) : q[i] = x})

OpenSurfaces == {s \in Surfaces : win[s] = "open"}

\* The host executable was configured and existed on disk at startup.
EligibleAtStart == options.electron # Undefined /\ existedAtStart

TerminateCalls == Count(calls, "exit") + Count(calls, "quit")

\* C1: after any sequence of window-created and window-closed notifications
\* the registry holds exactly the surfaces created and not yet closed, each
\* once.
C1_RegistryExact ==
    /\ Range(browserWindows) = OpenSurfaces
    /\ Len(browserWindows) = Cardinality(OpenSurfaces)

C1_Witness ==
    /\ \E s \in Surfaces : win[s] = "closed"
    /\ \E s \in Surfaces : win[s] = "open"
    /\ Len(browserWindows) = 1

\* C2: a run of softResetHandler calls reloadIgnoringCache exactly once on
\* every surface that is open (registered) at that moment and on no other
\* surface.
C2_BroadcastExact ==
    fired.handler = "soft" =>
        \A s \in Surfaces :
            Count(reloads, s) = (IF win[s] = "open" THEN 1 ELSE 0)

C2_Witness ==
    /\ fired.handler = "soft"
    /\ Len(reloads) = 1
    /\ \E s \in Surfaces : win[s] = "closed"

\* C3 (as claimed): for every configuration, a change of the entry file never
\* runs the soft reset.
C3_EntryFileNeverReloads ==
    fired.handler = "soft" => fired.file # mainFile

\* C4 (as claimed): the soft-reset subscription's ignore set holds the default
\* pattern, the entry file and the caller's rules.
C4_IgnoreMerged ==
    started =>
        /\ RegexMatcher \in watcher.ignored
        /\ PathMatcher(mainFile) \in watcher.ignored
        /\ (options.hasIgnored => options.ignored \subseteq watcher.ignored)

\* The escalation outcome: the soft-reset subscription is closed and the
\* hard-reset subscription is open over a pattern set that includes every glob.
Escalated ==
    /\ ~watcher.open
    /\ hardWatcher.open
    /\ glob \subseteq hardWatcher.patterns

\* C5 (as claimed): forceHardReset true gives the escalation outcome for every
\* configuration of the other options.
C5_EscalationAlways ==
    (started /\ options.forceHardReset) => Escalated

\* C5 (amended): forceHardReset true gives the escalation outcome when the host
\* executable is configured and existed at startup.
C5_EscalationWhenEligible ==
    (started /\ options.forceHardReset /\ EligibleAtStart) => Escalated

C5_Witness ==
    /\ started /\ options.forceHardReset /\ EligibleAtStart
    /\ SrcPath \in hardWatcher.pending

\* C6: hardResetHandler runs at most once: at most one spawn and at most one
\* exit or quit call over the process lifetime.
C6_RespawnAtMostOnce ==
    /\ Len(spawnLog) <= 1
    /\ Count(calls, "spawn") <= 1
    /\ TerminateCalls <= 1

C6_Witness ==
    /\ alive
    /\ Count(calls, "quit") = 1
    /\ hardWatcher.dropped

\* C7: without a configured host executable that exists at startup there is no
\* hard-reset subscription, the diagnostic is logged, and nothing is ever
\* spawned, exited or quit.
C7_NoHardResetWithoutExecutable ==
    (started /\ ~EligibleAtStart) =>
        /\ ~hardWatcher.created
        /\ Len(consoleLog) = 1
        /\ calls = <<>>
        /\ spawnLog = <<>>
        /\ fired.handler # "hard"

C7_Witness ==
    /\ started /\ options.electron # Undefined /\ ~existedAtStart
    /\ execOnDisk
    /\ fired.handler = "soft"

\* C8 (as claimed): with an existing executable and no escalation, the soft
\* reset never runs for the entry file, the hard reset runs only for the entry
\* file and at most once, and no change is reported to both subscriptions.
C8_RoutedByPath ==
    (started /\ EligibleAtStart /\ ~options.forceHardReset) =>
        /\ (fired.handler = "soft" => fired.file # mainFile)
        /\ (fired.handler = "hard" => fired.file = mainFile)
        /\ Len(spawnLog) <= 1
        /\ watcher.pending \cap hardWatcher.pending = {}

\* A glob covers f.
GlobCovers(f) == \E p \in glob : Covers(p, f)

\* C9: with an existing executable and forceHardReset true, no step ever calls
\* reloadIgnoringCache or runs the soft reset, every file the glob patterns
\* match (under a glob and let through by the subscription's ignore rules) is
\* watched for the hard reset, and once such a change has been delivered
\* exactly one respawn has been started.
C9_EscalatedRespawnOnly ==
    (started /\ EligibleAtStart /\ options.forceHardReset) =>
        /\ fired.handler # "soft"
        /\ reloads = <<>>
        /\ \A f \in Files :
              (GlobCovers(f) /\ ~ \E m \in hardWatcher.ignored : Matches(m, f))
              => Watches(hardWatcher, f)
        /\ Len(spawnLog) <= 1
        /\ (nChanges >= 1 /\ hardWatcher.pending = {}) => Len(spawnLog) = 1

C9_Witness ==
    /\ started /\ EligibleAtStart /\ options.forceHardReset
    /\ fired = [handler |-> "hard", file |-> SrcPath]
    /\ OpenSurfaces # {}
    /\ Len(spawnLog) = 1

\* C10: spawn comes before the termination call, and the termination call is
\* app.exit() exactly when hardResetMethod is "exit" and app.quit() otherwise.
C10_SpawnThenTerminate ==
    \A i \in 1..Len(calls) :
        /\ (calls[i] \in {"exit", "quit"} =>
                \E j \in 1..(i - 1) : calls[j] = "spawn")
        /\ (calls[i] = "exit" => options.hardResetMethod = "exit")
        /\ (calls[i] = "quit" => options.hardResetMethod # "exit")

C10_Witness ==
    /\ options.hardResetMethod = Undefined
    /\ calls = <<"spawn", "unref", "quit">>

\* The argv the caller supplied, the empty list when it supplied none.
CallerArgv == IF options.hasArgv THEN options.argv ELSE <<>>

\* C11: every spawn gets the caller's argv, in order, followed by the
\* application path as last element, and no step changes the caller's argv.
C11_SpawnArgs ==
    /\ [](\A i \in 1..Len(spawnLog) :
            LET args == spawnLog[i].args
            IN  /\ Len(args) = Len(CallerArgv) + 1
                /\ SubSeq(args, 1, Len(CallerArgv)) = CallerArgv
                /\ args[Len(args)] = appPath)
    /\ [][options.argv' = options.argv /\ options.hasArgv' = options.hasArgv]_vars

C11_Witness ==
    /\ options.hasArgv
    /\ Len(spawnLog) = 1
    /\ spawnLog[1].args = <<"--a", "--b", "/app">>

\* C12 (as claimed): a 'closed' notification for a surface that is not in the
\* registry leaves the registry unchanged: a step in which no surface is
\* created or closes for the first time does not change browserWindows.
C12_AbsentUnregisterNoOp ==
    [][win' = win => browserWindows' = browserWindows]_vars

\* C13: when the host executable is not configured or did not exist at
\* startup, the process keeps running with the soft-reset subscription open
\* and its listener bound, and every file under a glob that the subscription's
\* ignore rules let through is watched for the soft reset, whatever
\* forceHardReset is.
C13_SoftResetWithoutExecutable ==
    (started /\ ~EligibleAtStart) =>
        /\ alive
        /\ watcher.open /\ watcher.listener
        /\ \A f \in Files :
              (GlobCovers(f) /\ ~ \E m \in watcher.ignored : Matches(m, f))
              => Watches(watcher, f)

C13_Witness ==
    /\ started /\ ~EligibleAtStart /\ options.forceHardReset
    /\ fired = [handler |-> "soft", file |-> SrcPath]
    /\ Len(reloads) >= 1

\* C14: within one run of softResetHandler the reload calls follow the
\* registration order: a surface created earlier (lower number) is reloaded
\* before one created later.
C14_ReloadInRegistrationOrder ==
    fired.handler = "soft" =>
        \A i, j \in 1..Len(reloads) : i < j => reloads[i] < reloads[j]

C14_Witness ==
    /\ fired.handler = "soft"
    /\ win[1] = "closed"
    /\ reloads = <<2, 3>>

\* C15: without forceHardReset the soft-reset subscription stays open with
\* its listener bound after any sequence of events, and while the process
\* runs every change it has reported and not yet delivered can still run
\* softResetHandler, also after the hard reset has fired and app.quit() was
\* intercepted.
C15_SoftNeverCancelled ==
    (started /\ ~options.forceHardReset) =>
        /\ watcher.open /\ watcher.listener
        /\ \A f \in watcher.pending : alive => ENABLED SoftChange(f)

C15_Witness ==
    /\ started /\ ~options.forceHardReset
    /\ alive /\ Count(calls, "quit") = 1
    /\ fired = [handler |-> "soft", file |-> SrcPath]

\* The spawn calls that threw.
ThrownSpawns == {i \in 1..Len(spawnLog) : spawnLog[i].outcome = "throw"}

Without(q, x) == SelectSeq(q, LAMBDA y : y # x)

\* C17: the 'closed' notification of a registered surface removes that
\* surface's entry and nothing else: the registry after the step is the
\* registry before it without that surface, the others in the same order.
C17_ClosedRemovesExactlyThatEntry ==
    [][\A s \in Surfaces :
          (win[s] = "open" /\ win'[s] = "closed") =>
              /\ browserWindows' = Without(browserWindows, s)
              /\ Len(browserWindows') = Len(browserWindows) - 1]_vars

C17_Witness ==
    /\ win[2] = "closed"
    /\ browserWindows = <<1, 3>>

\* C18: hard-reset eligibility is decided once, at startup: the hard-reset
\* subscription exists exactly when the executable was configured and existed
\* at startup, whatever happens to the executable later; when it exists it
\* stays open with its listener bound until the first change event, and that
\* event calls spawn with the configured executable even if it is gone.
C18_EligibilityDecidedAtStartup ==
    started =>
        /\ (hardWatcher.created <=> EligibleAtStart)
        /\ (EligibleAtStart =>
              /\ hardWatcher.open
              /\ (hardWatcher.listener <=> spawnLog = <<>>))
        /\ (fired.handler = "hard" =>
              /\ Len(spawnLog) = 1
              /\ spawnLog[1].cmd = options.electron)

C18_Witness ==
    /\ started /\ EligibleAtStart
    /\ ~execOnDisk
    /\ fired.handler = "hard"
    /\ spawnLog[1].outcome = "enoent"

\* C19: with an existing executable and forceHardReset true the hard-reset
\* subscription's pattern set is the entry file plus the globs, so the entry
\* file is watched for the hard reset (unless an ignore rule of the
\* subscription excludes it) and its change can run the one-shot respawn.
C19_EscalatedStillCoversEntryFile ==
    (started /\ EligibleAtStart /\ options.forceHardReset) =>
        /\ hardWatcher.patterns = {mainFile} \cup glob
        /\ (mainFile # NoPath /\ ~ \E m \in hardWatcher.ignored : Matches(m, mainFile))
              => Watches(hardWatcher, mainFile)
        /\ (alive /\ hardWatcher.listener /\ mainFile \in hardWatcher.pending)
              => ENABLED HardChange(mainFile)

C19_Witness ==
    /\ started /\ EligibleAtStart /\ options.forceHardReset
    /\ glob = {<<"app", "src">>}
    /\ fired = [handler |-> "hard", file |-> MainPath]
    /\ Len(spawnLog) = 1

====
